---- MODULE Spec2Model ----
(***************************************************************************)
(* Model of src/alert.py: the CAP/Atom alert feed to KML converter.        *)
(*                                                                         *)
(* Text is modelled character by character: a text is a sequence of        *)
(* one-character strings.  Numbers are exact decimal rationals             *)
(*     [n |-> numerator, e |-> power of ten, d |-> denominator]            *)
(* standing for n * 10^e / d, kept in a canonical form, so that float()    *)
(* of a decimal literal, the shoelace sums and the final divisions are     *)
(* computed exactly (IEEE rounding of the last bit is not modelled).       *)
(* An XML element is a record [tag, text]; an entry is the sequence of     *)
(* its children.  Python's None for a point is the empty tuple.            *)
(***************************************************************************)
EXTENDS Integers, Sequences, FiniteSets, TLC

VARIABLES pc, net, raw, entries_xml, idx, point, entries, kml_tree, out_file,
          stderr, exc

vars == <<pc, net, raw, entries_xml, idx, point, entries, kml_tree, out_file,
          stderr, exc>>

-----------------------------------------------------------------------------
(* Bounds of the model *)

\* longest feed (number of children of the feed's root element)
MaxEntries == 3
\* polygon grid: vertex coordinates are 0 .. MaxCoord steps of 0.00003 degree
MaxCoord == 2

-----------------------------------------------------------------------------
(* Exact decimal arithmetic standing for Python floats *)

Abs(x) == IF x < 0 THEN -x ELSE x

Min(x, y) == IF x < y THEN x ELSE y

RECURSIVE Pow10(_)
Pow10(k) == IF k = 0 THEN 1 ELSE 10 * Pow10(k - 1)

RECURSIVE Gcd(_, _)
Gcd(x, y) == IF y = 0 THEN x ELSE Gcd(y, x % y)

\* canonical form of n * 10^e / d  (d # 0): d > 0 coprime to 10 and to n,
\* n not a multiple of 10; zero is [0, 0, 1]
RECURSIVE Norm(_, _, _)
Norm(n, e, d) ==
    IF n = 0 THEN [n |-> 0, e |-> 0, d |-> 1]
    ELSE IF d < 0 THEN Norm(-n, e, -d)
    ELSE LET g == Gcd(Abs(n), d) IN
         IF g > 1 THEN Norm(n \div g, e, d \div g)
         ELSE IF d % 2 = 0 THEN Norm(5 * n, e - 1, d \div 2)
         ELSE IF d % 5 = 0 THEN Norm(2 * n, e - 1, d \div 5)
         ELSE IF n % 10 = 0 THEN Norm(n \div 10, e + 1, d)
         ELSE [n |-> n, e |-> e, d |-> d]

Int2Num(k) == Norm(k, 0, 1)

Zero == Int2Num(0)

NumAdd(a, b) ==
    LET e == Min(a.e, b.e)
        na == a.n * Pow10(a.e - e)
        nb == b.n * Pow10(b.e - e)
    IN  IF a.n = 0 THEN b
        ELSE IF b.n = 0 THEN a
        ELSE Norm(na * b.d + nb * a.d, e, a.d * b.d)

NumNeg(a) == [a EXCEPT !.n = -a.n]

NumSub(a, b) == NumAdd(a, NumNeg(b))

NumMul(a, b) == Norm(a.n * b.n, a.e + b.e, a.d * b.d)

\* a / b for b # 0
NumDiv(a, b) == Norm(a.n * b.d, a.e - b.e, a.d * b.n)

NumAbs(a) == [a EXCEPT !.n = Abs(a.n)]

\* the least integer q with q * 10^g >= y, for y > 0  (10^g exceeds every
\* machine integer once g > 9)
CeilDivPow10(y, g) ==
    IF g > 9 THEN 1 ELSE (y + Pow10(g) - 1) \div Pow10(g)

\* a < b for a, b > 0, without forming the aligned numerators
LtPos(a, b) ==
    LET x == a.n * b.d
        y == b.n * a.d
    IN  IF a.e >= b.e
        THEN x < CeilDivPow10(y, a.e - b.e)
        ELSE ~(y < CeilDivPow10(x + 1, b.e - a.e))

NumLt(a, b) ==
    IF a.n <= 0 /\ b.n <= 0
    THEN IF a.n = 0 \/ b.n = 0 THEN b.n > 0 \/ (a.n < 0 /\ b.n = 0)
         ELSE LtPos(NumNeg(b), NumNeg(a))
    ELSE IF a.n <= 0 THEN TRUE
    ELSE IF b.n <= 0 THEN FALSE
    ELSE LtPos(a, b)

NumLe(a, b) == ~NumLt(b, a)

-----------------------------------------------------------------------------
(* Text: str.strip, str.split, str.lower, the "in" operator, float() *)

Whitespace == {" ", "\n"}

DigitChars == <<"0", "1", "2", "3", "4", "5", "6", "7", "8", "9">>

IsDigit(c) == \E i \in DOMAIN DigitChars : DigitChars[i] = c

DigitVal(c) == (CHOOSE i \in DOMAIN DigitChars : DigitChars[i] = c) - 1

RECURSIVE LStrip(_)
LStrip(s) ==
    IF s # <<>> /\ Head(s) \in Whitespace THEN LStrip(Tail(s)) ELSE s

RECURSIVE RStrip(_)
RStrip(s) ==
    IF s # <<>> /\ s[Len(s)] \in Whitespace
    THEN RStrip(SubSeq(s, 1, Len(s) - 1)) ELSE s

\* str.strip()
Strip(s) == RStrip(LStrip(s))

\* str.split(): the maximal runs of non-whitespace characters
RECURSIVE SplitFrom(_, _, _)
SplitFrom(s, cur, acc) ==
    IF s = <<>>
    THEN IF cur = <<>> THEN acc ELSE Append(acc, cur)
    ELSE IF Head(s) \in Whitespace
         THEN SplitFrom(Tail(s), <<>>,
                        IF cur = <<>> THEN acc ELSE Append(acc, cur))
         ELSE SplitFrom(Tail(s), Append(cur, Head(s)), acc)

Split(s) == SplitFrom(s, <<>>, <<>>)

UpperChars == <<"A", "B", "C", "D", "E", "F", "G", "H", "I", "J", "K", "L", "M",
                "N", "O", "P", "Q", "R", "S", "T", "U", "V", "W", "X", "Y", "Z">>

LowerChars == <<"a", "b", "c", "d", "e", "f", "g", "h", "i", "j", "k", "l", "m",
                "n", "o", "p", "q", "r", "s", "t", "u", "v", "w", "x", "y", "z">>

LowerChar(c) ==
    IF \E i \in DOMAIN UpperChars : UpperChars[i] = c
    THEN LowerChars[CHOOSE i \in DOMAIN UpperChars : UpperChars[i] = c]
    ELSE c

\* str.lower()
Lower(s) == [i \in DOMAIN s |-> LowerChar(s[i])]

\* k in s, for strings
IsSubstring(k, s) ==
    \E i \in 1 .. (Len(s) - Len(k) + 1) : SubSeq(s, i, i + Len(k) - 1) = k

RECURSIVE DigitsValue(_)
DigitsValue(s) ==
    IF s = <<>> THEN 0
    ELSE 10 * DigitsValue(SubSeq(s, 1, Len(s) - 1)) + DigitVal(s[Len(s)])

\* float(tok) for a token over the characters 0-9 . - and other
\* non-numeric characters (no exponent, sign "+", "_", inf or nan spellings):
\* an optional "-", then digits with at most one "." and at least one digit.
\* [ok |-> FALSE] stands for ValueError.
float(tok) ==
    LET neg == tok # <<>> /\ Head(tok) = "-"
        body == IF neg THEN Tail(tok) ELSE tok
        dots == {i \in DOMAIN body : body[i] = "."}
        digits == SelectSeq(body, IsDigit)
        wellFormed == /\ \A i \in DOMAIN body : IsDigit(body[i]) \/ body[i] = "."
                      /\ Cardinality(dots) <= 1
                      /\ digits # <<>>
        frac == IF dots = {} THEN 0
                ELSE Len(body) - (CHOOSE i \in dots : TRUE)
        mag == DigitsValue(digits)
    IN  IF wellFormed
        THEN [ok |-> TRUE, val |-> Norm(IF neg THEN -mag ELSE mag, -frac, 1)]
        ELSE [ok |-> FALSE, val |-> Zero]

-----------------------------------------------------------------------------
(* Module constants *)

\* value of a table literal given in millionths of a degree
Micro(k) == Norm(k, -6, 1)

STATE_CENTROIDS ==
    <<
    [key |-> <<"A", "L">>, lat |-> 32806671, lon |-> -86791130],
    [key |-> <<"A", "K">>, lat |-> 61370716, lon |-> -152404419],
    [key |-> <<"A", "Z">>, lat |-> 33729759, lon |-> -111431221],
    [key |-> <<"A", "R">>, lat |-> 34969704, lon |-> -92373123],
    [key |-> <<"C", "A">>, lat |-> 36116203, lon |-> -119681564],
    [key |-> <<"C", "O">>, lat |-> 39059811, lon |-> -105311104],
    [key |-> <<"C", "T">>, lat |-> 41597782, lon |-> -72755371],
    [key |-> <<"D", "E">>, lat |-> 39318523, lon |-> -75507141],
    [key |-> <<"F", "L">>, lat |-> 27766279, lon |-> -81686783],
    [key |-> <<"G", "A">>, lat |-> 33040619, lon |-> -83643074],
    [key |-> <<"H", "I">>, lat |-> 21094318, lon |-> -157498337],
    [key |-> <<"I", "D">>, lat |-> 44240459, lon |-> -114478828],
    [key |-> <<"I", "L">>, lat |-> 40349457, lon |-> -88986137],
    [key |-> <<"I", "N">>, lat |-> 39849426, lon |-> -86258278],
    [key |-> <<"I", "A">>, lat |-> 42011539, lon |-> -93210526],
    [key |-> <<"K", "S">>, lat |-> 38526600, lon |-> -96726486],
    [key |-> <<"K", "Y">>, lat |-> 37668140, lon |-> -84670067],
    [key |-> <<"L", "A">>, lat |-> 31169546, lon |-> -91867805],
    [key |-> <<"M", "E">>, lat |-> 44693947, lon |-> -69381927],
    [key |-> <<"M", "D">>, lat |-> 39063946, lon |-> -76802101],
    [key |-> <<"M", "A">>, lat |-> 42230171, lon |-> -71530106],
    [key |-> <<"M", "I">>, lat |-> 43326618, lon |-> -84536095],
    [key |-> <<"M", "N">>, lat |-> 45694454, lon |-> -93900192],
    [key |-> <<"M", "S">>, lat |-> 32741646, lon |-> -89678696],
    [key |-> <<"M", "O">>, lat |-> 38456085, lon |-> -92288368],
    [key |-> <<"M", "T">>, lat |-> 46921925, lon |-> -110454353],
    [key |-> <<"N", "E">>, lat |-> 41125370, lon |-> -98268082],
    [key |-> <<"N", "V">>, lat |-> 38313515, lon |-> -117055374],
    [key |-> <<"N", "H">>, lat |-> 43452492, lon |-> -71563896],
    [key |-> <<"N", "J">>, lat |-> 40298904, lon |-> -74521011],
    [key |-> <<"N", "M">>, lat |-> 34840515, lon |-> -106248482],
    [key |-> <<"N", "Y">>, lat |-> 42165726, lon |-> -74948051],
    [key |-> <<"N", "C">>, lat |-> 35630066, lon |-> -79806419],
    [key |-> <<"N", "D">>, lat |-> 47528912, lon |-> -99784012],
    [key |-> <<"O", "H">>, lat |-> 40388783, lon |-> -82764915],
    [key |-> <<"O", "K">>, lat |-> 35565342, lon |-> -96928917],
    [key |-> <<"O", "R">>, lat |-> 44572021, lon |-> -122070938],
    [key |-> <<"P", "A">>, lat |-> 40590752, lon |-> -77209755],
    [key |-> <<"R", "I">>, lat |-> 41680893, lon |-> -71511780],
    [key |-> <<"S", "C">>, lat |-> 33856892, lon |-> -80945007],
    [key |-> <<"S", "D">>, lat |-> 44299782, lon |-> -99438828],
    [key |-> <<"T", "N">>, lat |-> 35747845, lon |-> -86692345],
    [key |-> <<"T", "X">>, lat |-> 31054487, lon |-> -97563461],
    [key |-> <<"U", "T">>, lat |-> 40150032, lon |-> -111862434],
    [key |-> <<"V", "T">>, lat |-> 44045876, lon |-> -72710686],
    [key |-> <<"V", "A">>, lat |-> 37769337, lon |-> -78169968],
    [key |-> <<"W", "A">>, lat |-> 47400902, lon |-> -121490494],
    [key |-> <<"W", "V">>, lat |-> 38491226, lon |-> -80954456],
    [key |-> <<"W", "I">>, lat |-> 44268543, lon |-> -89616508],
    [key |-> <<"W", "Y">>, lat |-> 42755966, lon |-> -107302490]
    >>

SEVERITY_ICON == <<
    [sev |-> <<"E", "x", "t", "r", "e", "m", "e">>, icon |-> "paddle/red-circle.png"],
    [sev |-> <<"S", "e", "v", "e", "r", "e">>, icon |-> "paddle/red-circle.png"],
    [sev |-> <<"M", "o", "d", "e", "r", "a", "t", "e">>, icon |-> "paddle/ylw-circle.png"],
    [sev |-> <<"M", "i", "n", "o", "r">>, icon |-> "paddle/grn-circle.png"]
>>

DEFAULT_ICON == "paddle/wht-circle.png"

\* 1e-9, the literal of the degenerate-polygon test
EPS == Norm(1, -9, 1)

None == <<>>

-----------------------------------------------------------------------------
(* xml.etree: Element.find on the children of an element *)

NoNode == [tag |-> "None", text |-> <<>>]

\* el.find(path, NS): the first child with that qualified name, or None
find(el, path) ==
    LET hits == {i \in DOMAIN el : el[i].tag = path}
    IN  IF hits = {} THEN NoNode
        ELSE el[CHOOSE i \in hits : \A j \in hits : i <= j]

\* text_of(el, path): trimmed text of the first such child, "" when the
\* child is absent or has no text
text_of(el, path) ==
    LET node == find(el, path)
    IN  IF node # NoNode /\ node.text # <<>> THEN Strip(node.text) ELSE <<>>

-----------------------------------------------------------------------------
(* polygon_centroid *)

\* pts = [(p[1], p[0]) for p in latlons]: (x = lon, y = lat)
ToXY(latlons) == [i \in DOMAIN latlons |-> <<latlons[i][2], latlons[i][1]>>]

\* cross = x1 * y2 - x2 * y1 for the pair starting at the i-th vertex,
\* the last vertex paired with the first
CrossAt(pts, i) ==
    LET p1 == pts[i]
        p2 == pts[(i % Len(pts)) + 1]
    IN  NumSub(NumMul(p1[1], p2[2]), NumMul(p2[1], p1[2]))

\* the accumulators a, cx, cy after the first k iterations of the loop
RECURSIVE LoopA(_, _)
LoopA(pts, k) ==
    IF k = 0 THEN Zero ELSE NumAdd(LoopA(pts, k - 1), CrossAt(pts, k))

RECURSIVE LoopCx(_, _)
LoopCx(pts, k) ==
    IF k = 0 THEN Zero
    ELSE LET p1 == pts[k]
             p2 == pts[(k % Len(pts)) + 1]
         IN  NumAdd(LoopCx(pts, k - 1),
                    NumMul(NumAdd(p1[1], p2[1]), CrossAt(pts, k)))

RECURSIVE LoopCy(_, _)
LoopCy(pts, k) ==
    IF k = 0 THEN Zero
    ELSE LET p1 == pts[k]
             p2 == pts[(k % Len(pts)) + 1]
         IN  NumAdd(LoopCy(pts, k - 1),
                    NumMul(NumAdd(p1[2], p2[2]), CrossAt(pts, k)))

\* sum(p[c] for p in latlons)
RECURSIVE SumCoord(_, _, _)
SumCoord(latlons, c, k) ==
    IF k = 0 THEN Zero ELSE NumAdd(SumCoord(latlons, c, k - 1), latlons[k][c])

\* the test of the degenerate branch: abs(a) < 1e-9, a being the summed
\* cross products at that point of the code
IsDegenerate(latlons) ==
    NumLt(NumAbs(LoopA(ToXY(latlons), Len(latlons))), EPS)

\* the mean of the vertices, (lat, lon)
MeanOfVertices(latlons) ==
    LET n == Int2Num(Len(latlons))
    IN  <<NumDiv(SumCoord(latlons, 1, Len(latlons)), n),
          NumDiv(SumCoord(latlons, 2, Len(latlons)), n)>>

\* variant of AreaCentroid: the pair returned as (cx, cy), not mapped back
AreaCentroidXY(latlons) ==
    LET pts == ToXY(latlons)
        a == NumMul(LoopA(pts, Len(pts)), Norm(5, -1, 1))
        sixA == NumMul(Int2Num(6), a)
        cx == NumDiv(LoopCx(pts, Len(pts)), sixA)
        cy == NumDiv(LoopCy(pts, Len(pts)), sixA)
    IN  <<cx, cy>>

\* a *= 0.5; cx /= 6a; cy /= 6a; return (cy, cx)
AreaCentroid(latlons) ==
    LET pts == ToXY(latlons)
        a == NumMul(LoopA(pts, Len(pts)), Norm(5, -1, 1))
        sixA == NumMul(Int2Num(6), a)
        cx == NumDiv(LoopCx(pts, Len(pts)), sixA)
        cy == NumDiv(LoopCy(pts, Len(pts)), sixA)
    IN  <<cy, cx>>

polygon_centroid(latlons) ==
    IF latlons = <<>> THEN None
    ELSE IF IsDegenerate(latlons) THEN MeanOfVertices(latlons)
    ELSE AreaCentroid(latlons)

-----------------------------------------------------------------------------
(* parse_point_from_entry.  The outcome of a block of code is one of       *)
(*   [kind |-> "return", val |-> v]   it returned v                         *)
(*   [kind |-> "raise",  val |-> x]   exception x left it                   *)
(*   [kind |-> "fall",   val |-> None] control reached its end              *)

Return(v) == [kind |-> "return", val |-> v]

Raise(x) == [kind |-> "raise", val |-> x]

Fall == [kind |-> "fall", val |-> None]

\* variant of ExceptPass: the block without its except clause
ExceptNothing(outcome) == outcome

\* try: ... except Exception: pass
ExceptPass(outcome) == IF outcome.kind = "raise" THEN Fall ELSE outcome

\* lat_str, lon_str = p.text.strip().split()
\* return (float(lat_str), float(lon_str))
PointTryBody(text) ==
    LET toks == Split(Strip(text))
    IN  IF Len(toks) # 2 THEN Raise("ValueError")
        ELSE IF ~float(toks[1]).ok \/ ~float(toks[2]).ok
             THEN Raise("ValueError")
             ELSE Return(<<float(toks[1]).val, float(toks[2]).val>>)

PointStep(entry) ==
    LET p == find(entry, "georss:point")
    IN  IF p # NoNode /\ p.text # <<>>
        THEN ExceptPass(PointTryBody(p.text))
        ELSE Fall

\* the list of (lat, lon) pairs of an even number of numeric tokens
Coords(nums) ==
    [k \in 1 .. (Len(nums) \div 2) |->
        <<float(nums[2 * k - 1]).val, float(nums[2 * k]).val>>]

\* coords = [(float(nums[i]), float(nums[i + 1])) for i in range(0, len(nums), 2)]
\* return polygon_centroid(coords)
\* Every token is converted before nums[i + 1] can run past an odd-length
\* list, so a non-numeric token raises ValueError, else an odd count IndexError.
PolygonTryBody(text) ==
    LET nums == Split(Strip(text))
    IN  IF \E i \in DOMAIN nums : ~float(nums[i]).ok
        THEN Raise("ValueError")
        ELSE IF Len(nums) % 2 = 1
        THEN Raise("IndexError")
        ELSE Return(polygon_centroid(Coords(nums)))

PolygonStep(entry) ==
    LET poly == find(entry, "georss:polygon")
    IN  IF poly # NoNode /\ poly.text # <<>>
        THEN ExceptPass(PolygonTryBody(poly.text))
        ELSE Fall

\* variant of ScanStates: the last matching row wins
ScanStatesLast(area_desc, k) ==
    LET rows == {j \in k .. Len(STATE_CENTROIDS) :
                    IsSubstring(STATE_CENTROIDS[j].key, area_desc)}
        last == CHOOSE j \in rows : \A i \in rows : i <= j
    IN  IF rows = {} THEN Fall
        ELSE Return(<<Micro(STATE_CENTROIDS[last].lat), Micro(STATE_CENTROIDS[last].lon)>>)

\* for state, centroid in STATE_CENTROIDS.items():
\*     if state in area_desc: return centroid
\* scanned from the k-th row of the table on
RECURSIVE ScanStates(_, _)
ScanStates(area_desc, k) ==
    IF k > Len(STATE_CENTROIDS) THEN Fall
    ELSE IF IsSubstring(STATE_CENTROIDS[k].key, area_desc)
         THEN Return(<<Micro(STATE_CENTROIDS[k].lat), Micro(STATE_CENTROIDS[k].lon)>>)
         ELSE ScanStates(area_desc, k + 1)

AreaStep(entry) ==
    LET area_desc == text_of(entry, "cap:areaDesc")
    IN  IF area_desc # <<>> THEN ScanStates(area_desc, 1) ELSE Fall

parse_point_from_entry(entry) ==
    LET s1 == PointStep(entry)
        s2 == PolygonStep(entry)
        s3 == AreaStep(entry)
    IN  IF s1.kind # "fall" THEN s1
        ELSE IF s2.kind # "fall" THEN s2
        ELSE IF s3.kind # "fall" THEN s3
        ELSE Return(None)

-----------------------------------------------------------------------------
(* build_kml *)

\* x or y, for strings
Or(x, y) == IF x # <<>> THEN x ELSE y

\* f"sev_{sev.lower()}"
StyleId(sev) == <<"s", "e", "v", "_">> \o Lower(sev)

\* the Style elements of the loop over {**SEVERITY_ICON, "Unknown": DEFAULT_ICON}
SeverityStyles ==
    [i \in 1 .. (Len(SEVERITY_ICON) + 1) |->
        IF i <= Len(SEVERITY_ICON)
        THEN [id |-> StyleId(SEVERITY_ICON[i].sev), href |-> SEVERITY_ICON[i].icon,
              iconScale |-> "1.2", labelScale |-> "0.9"]
        ELSE [id |-> StyleId(<<"U", "n", "k", "n", "o", "w", "n">>),
              href |-> DEFAULT_ICON, iconScale |-> "1.2", labelScale |-> "0.9"]]

\* the $[...] placeholders of the balloon template, in the order of the template
BalloonPlaceholders ==
    <<"name", "ext_event", "ext_severity", "ext_urgency", "ext_certainty",
      "ext_effective", "ext_expires", "ext_areaDesc", "ext_description",
      "ext_instruction", "ext_id">>

\* variant of add_data: the value lower-cased on the way out
add_data_lower(name, value) == [name |-> name, value |-> Lower(Or(value, <<>>))]

\* add_data(name, value): a Data element named name whose value is value or ""
add_data(name, value) == [name |-> name, value |-> Or(value, <<>>)]

\* the Placemark built for one record of entries
Placemark(e) ==
    LET pt == e.point
        sev == Or(e.severity, <<"U", "n", "k", "n", "o", "w", "n">>)
    IN  [name |-> Or(e.title, Or(e.event, <<"A", "l", "e", "r", "t">>)),
         styleUrl |-> <<"#">> \o StyleId(sev),
         Snippet |-> Or(e.headline, Or(e.summary, <<>>)),
         ExtendedData |->
             << add_data("ext_event", e.event),
                add_data("ext_severity", e.severity),
                add_data("ext_urgency", e.urgency),
                add_data("ext_certainty", e.certainty),
                add_data("ext_effective", e.effective),
                add_data("ext_expires", e.expires),
                add_data("ext_areaDesc", e.areaDesc),
                add_data("ext_description", e.description),
                add_data("ext_instruction", e.instruction),
                add_data("ext_id", e.id) >>,
         \* f"{pt[1]},{pt[0]},0": longitude, latitude, altitude 0 (the decimal
         \* spelling of the two floats is kept as the numbers themselves)
         coordinates |-> <<pt[2], pt[1], Zero>>]

build_kml(recs) ==
    [name |-> "NOAA Active Alerts (Points)",
     styles |-> SeverityStyles,
     balloon |-> BalloonPlaceholders,
     placemarks |-> [i \in DOMAIN recs |-> Placemark(recs[i])]]

\* the document before build_kml has run
NoTree == [name |-> "", styles |-> <<>>, balloon |-> <<>>, placemarks |-> <<>>]

-----------------------------------------------------------------------------
(* main *)

\* root.findall("atom:entry", NS): the entry children of the root, in order,
\* each given by its own children
RECURSIVE findall_entries(_)
findall_entries(root) ==
    IF root = <<>> THEN <<>>
    ELSE IF Head(root).tag = "atom:entry"
         THEN <<Head(root).children>> \o findall_entries(Tail(root))
         ELSE findall_entries(Tail(root))

\* the dict built for an entry that could be placed
Record(entry, pt) ==
    [point |-> pt,
     id |-> text_of(entry, "atom:id"),
     title |-> text_of(entry, "atom:title"),
     updated |-> text_of(entry, "atom:updated"),
     summary |-> text_of(entry, "atom:summary"),
     event |-> text_of(entry, "cap:event"),
     effective |-> text_of(entry, "cap:effective"),
     expires |-> text_of(entry, "cap:expires"),
     urgency |-> text_of(entry, "cap:urgency"),
     severity |-> text_of(entry, "cap:severity"),
     certainty |-> text_of(entry, "cap:certainty"),
     areaDesc |-> text_of(entry, "cap:areaDesc"),
     headline |-> text_of(entry, "cap:headline"),
     description |-> text_of(entry, "cap:description"),
     instruction |-> text_of(entry, "cap:instruction")]

\* the file at out_path before the run touches it
Untouched == [written |-> FALSE, doc |-> NoTree]

\* raw = http_get(FEED_URL): the response body is returned
HttpGetOk ==
    /\ pc = "http_get"
    /\ net.status = "200"
    /\ raw' = net.body
    /\ pc' = "fromstring"
    /\ UNCHANGED <<net, entries_xml, idx, point, entries, kml_tree, out_file,
                   stderr, exc>>

\* urlopen raises (URLError, timeout, HTTPError): main does not catch it
HttpGetFail ==
    /\ pc = "http_get"
    /\ net.status # "200"
    /\ exc' = net.status
    /\ pc' = "aborted"
    /\ UNCHANGED <<net, raw, entries_xml, idx, point, entries, kml_tree,
                   out_file, stderr>>

\* root = ET.fromstring(raw); entries_xml = root.findall(...); entries = []
FromStringOk ==
    /\ pc = "fromstring"
    /\ raw.wellformed
    /\ entries_xml' = findall_entries(raw.root)
    /\ entries' = <<>>
    /\ idx' = 0
    /\ pc' = "loop"
    /\ UNCHANGED <<net, raw, point, kml_tree, out_file, stderr, exc>>

\* variant of FromStringFail: the parse error swallowed, the feed taken as empty
FromStringFailIgnored ==
    /\ pc = "fromstring"
    /\ ~raw.wellformed
    /\ entries_xml' = <<>>
    /\ entries' = <<>>
    /\ idx' = 0
    /\ pc' = "loop"
    /\ UNCHANGED <<net, raw, point, kml_tree, out_file, stderr, exc>>

\* ET.fromstring raises ParseError on bytes that are not well-formed XML
FromStringFail ==
    /\ pc = "fromstring"
    /\ ~raw.wellformed
    /\ exc' = "ParseError"
    /\ pc' = "aborted"
    /\ UNCHANGED <<net, raw, entries_xml, idx, point, entries, kml_tree,
                   out_file, stderr>>

\* for entry in entries_xml: point = parse_point_from_entry(entry)
ResolveEntry ==
    /\ pc = "loop"
    /\ idx < Len(entries_xml)
    /\ LET outcome == parse_point_from_entry(entries_xml[idx + 1])
       IN  IF outcome.kind = "raise"
           THEN /\ exc' = outcome.val
                /\ pc' = "aborted"
                /\ UNCHANGED <<idx, point>>
           ELSE /\ point' = outcome.val
                /\ idx' = idx + 1
                /\ pc' = "resolved"
                /\ exc' = exc
    /\ UNCHANGED <<net, raw, entries_xml, entries, kml_tree, out_file, stderr>>

\* if not point: continue
SkipEntry ==
    /\ pc = "resolved"
    /\ point = <<>>
    /\ pc' = "loop"
    /\ UNCHANGED <<net, raw, entries_xml, idx, point, entries, kml_tree,
                   out_file, stderr, exc>>

\* variant of AppendEntry: the record put at the front of the list
AppendEntryFirst ==
    /\ pc = "resolved"
    /\ point # <<>>
    /\ entries' = <<Record(entries_xml[idx], point)>> \o entries
    /\ pc' = "loop"
    /\ UNCHANGED <<net, raw, entries_xml, idx, point, kml_tree, out_file,
                   stderr, exc>>

\* data = {...}; entries.append(data)
AppendEntry ==
    /\ pc = "resolved"
    /\ point # <<>>
    /\ entries' = Append(entries, Record(entries_xml[idx], point))
    /\ pc' = "loop"
    /\ UNCHANGED <<net, raw, entries_xml, idx, point, kml_tree, out_file,
                   stderr, exc>>

\* kml_tree = build_kml(entries), once the loop is exhausted
BuildKml ==
    /\ pc = "loop"
    /\ idx = Len(entries_xml)
    /\ kml_tree' = build_kml(entries)
    /\ pc' = "write"
    /\ UNCHANGED <<net, raw, entries_xml, idx, point, entries, out_file,
                   stderr, exc>>

\* ET.indent(...); kml_tree.write(out_path, ...); print(... len(entries) ...)
\* (indentation and XML escaping do not change the document's content)
WriteOut ==
    /\ pc = "write"
    /\ out_file' = [written |-> TRUE, doc |-> kml_tree]
    /\ stderr' = Append(stderr, Len(entries))
    /\ pc' = "done"
    /\ UNCHANGED <<net, raw, entries_xml, idx, point, entries, kml_tree, exc>>

-----------------------------------------------------------------------------
(* The feeds the server may answer with *)

\* an optional child element: <<>> for no element, <<t>> for one with text t
Elem(tag, opt) == IF opt = <<>> THEN <<>> ELSE <<[tag |-> tag, text |-> opt[1]]>>

T(tag, text) == [tag |-> tag, text |-> text]

AtomEntry(children) == [tag |-> "atom:entry", children |-> children]

\* an alert with every field, placed by a direct point
EntryA ==
    AtomEntry(<<
        T("atom:id", <<"a">>),
        T("atom:title", <<"F", "l", "o", "o", "d", " ", "W", "a", "r", "n", "i", "n", "g">>),
        T("atom:updated", <<"n", "o", "w">>),
        T("atom:summary", <<"R", "a", "i", "n">>),
        T("cap:event", <<"F", "l", "o", "o", "d">>),
        T("cap:effective", <<"n", "o", "w">>),
        T("cap:expires", <<"s", "o", "o", "n">>),
        T("cap:urgency", <<"E", "x", "p", "e", "c", "t", "e", "d">>),
        T("cap:severity", <<"S", "e", "v", "e", "r", "e">>),
        T("cap:certainty", <<"L", "i", "k", "e", "l", "y">>),
        T("cap:areaDesc", <<"D", "a", "l", "l", "a", "s", ",", " ", "T", "X">>),
        T("cap:headline", <<"G", "o">>),
        T("cap:description", <<"R", "a", "i", "n">>),
        T("cap:instruction", <<"G", "o">>),
        T("georss:point", <<"1", " ", "2">>) >>)

\* an alert with nothing but an identifier, placed by its area description
EntryB ==
    AtomEntry(<<
        T("atom:id", <<"b">>),
        T("cap:areaDesc", <<"W", "Y", " ", "A", "L">>),
        T("cap:severity", <<>>) >>)

\* an alert of a severity outside the CAP levels, placed by a polygon
EntryC ==
    AtomEntry(<<
        T("atom:id", <<"c">>),
        T("atom:summary", <<"R", "a", "i", "n">>),
        T("cap:event", <<"F", "l", "o", "o", "d">>),
        T("cap:severity", <<"H", "i", "g", "h">>),
        T("georss:polygon", <<"0", " ", "0", " ", "0", " ", "2", " ", "2", " ", "2", " ",
                              "2", " ", "0">>) >>)

\* an alert whose texts carry surrounding whitespace
EntryD ==
    AtomEntry(<<
        T("atom:id", <<" ", "d", "\n">>),
        T("atom:title", <<" ", "F", "l", "o", "o", "d", "\n">>),
        T("cap:severity", <<" ", "M", "i", "n", "o", "r", "\n">>),
        T("cap:headline", <<"G", "o">>),
        T("georss:point", <<"-", "5", ".", "5", " ", "0">>) >>)

\* an alert with every field but no geometry and no area description
EntryU ==
    AtomEntry(<<
        T("atom:id", <<"u">>),
        T("atom:title", <<"F", "l", "o", "o", "d">>),
        T("cap:event", <<"F", "l", "o", "o", "d">>),
        T("cap:severity", <<"E", "x", "t", "r", "e", "m", "e">>) >>)

\* an alert whose three location fields are all unusable
EntryV ==
    AtomEntry(<<
        T("atom:id", <<"v">>),
        T("cap:severity", <<"M", "o", "d", "e", "r", "a", "t", "e">>),
        T("georss:point", <<"1", " ", "x">>),
        T("georss:polygon", <<"1", " ", "2", " ", "3">>),
        T("cap:areaDesc", <<"t", "x">>) >>)

\* an alert whose point lies outside the globe
EntryW ==
    AtomEntry(<<
        T("atom:id", <<"w">>),
        T("cap:severity", <<"E", "x", "t", "r", "e", "m", "e">>),
        T("georss:point", <<"9", "1", " ", "1", "8", "1">>) >>)

\* a child of the feed that is not an entry
FeedTitle == [tag |-> "atom:title", children |-> <<>>]

FeedChildren == {EntryA, EntryB, EntryC, EntryD, EntryU, EntryV, EntryW, FeedTitle}

\* every sequence of at most MaxEntries feed children
Feeds == UNION {[1 .. n -> FeedChildren] : n \in 0 .. MaxEntries}

PointTexts ==
    { <<>>,                                              \* no element
      << <<>> >>,                                        \* empty text
      << <<" ">> >>,
      << <<"1">> >>,
      << <<"1", " ", "x">> >>,
      << <<"1", ".", "2", ".", "3", " ", "4">> >>,
      << <<"1", ".", "5", " ", "-", "2", ".", "5">> >>,
      << <<" ", "1", " ", " ", "2", "\n">> >>,
      << <<"9", "1", " ", "1", "8", "1">> >> }

PolygonTexts ==
    { <<>>,
      << <<>> >>,
      << <<" ">> >>,
      << <<"1", " ", "2", " ", "3">> >>,
      << <<"1", " ", "2", " ", "x", " ", "4">> >>,
      << <<"3", " ", "4">> >>,
      << <<"1", " ", "1", " ", "1", " ", "1", " ", "1", " ", "1">> >>,
      << <<"0", " ", "0", " ", "1", " ", "1", " ", "2", " ", "2">> >>,
      << <<"0", " ", "0", " ", "0", " ", "2", " ", "2", " ", "2", " ", "2", " ", "0">> >>,
      << <<"0", " ", "0", " ", "2", " ", "0", " ", "2", " ", "2", " ", "0", " ", "2">> >> }

AreaTexts ==
    { <<>>,
      << <<>> >>,
      << <<" ">> >>,
      << <<"T", "X">> >>,
      << <<"W", "Y", " ", "A", "L">> >>,
      << <<"M", "I", "A", "M", "I">> >>,
      << <<"t", "x">> >>,
      << <<"D", "a", "l", "l", "a", "s", ",", " ", "T", "X">> >> }

\* an entry made of the three location fields
GeoEntry(p, g, a) ==
    AtomEntry(<<T("atom:id", <<"g">>)>>
              \o Elem("georss:point", p)
              \o Elem("georss:polygon", g)
              \o Elem("cap:areaDesc", a))

\* the decimal spelling of k steps of 0.00003 degree, k < 34
Fine(k) ==
    <<"0", ".", "0", "0", "0",
      DigitChars[((3 * k) \div 10) + 1], DigitChars[((3 * k) % 10) + 1]>>

\* the polygon text of four grid vertices, the first at the origin
GridText(c) ==
    Fine(0) \o <<" ">> \o Fine(0) \o <<" ">> \o
    Fine(c[1]) \o <<" ">> \o Fine(c[2]) \o <<" ">> \o
    Fine(c[3]) \o <<" ">> \o Fine(c[4]) \o <<" ">> \o
    Fine(c[5]) \o <<"\n">> \o Fine(c[6])

GeoFeeds ==
    { <<GeoEntry(p, g, a)>> : p \in PointTexts, g \in PolygonTexts, a \in AreaTexts }
    \cup
    { <<GeoEntry(<<>>, <<GridText(c)>>, <<>>)>> : c \in [1 .. 6 -> 0 .. MaxCoord] }

NoBody == [wellformed |-> FALSE, root |-> <<>>]

Responses ==
    { [status |-> "200", body |-> [wellformed |-> TRUE, root |-> f]] :
          f \in Feeds \cup GeoFeeds }
    \cup { [status |-> "200", body |-> NoBody] }
    \cup { [status |-> s, body |-> NoBody] : s \in {"URLError", "timeout", "HTTPError"} }

Init ==
    /\ pc = "http_get"
    /\ net \in Responses
    /\ raw = NoBody
    /\ entries_xml = <<>>
    /\ idx = 0
    /\ point = None
    /\ entries = <<>>
    /\ kml_tree = NoTree
    /\ out_file = Untouched
    /\ stderr = <<>>
    /\ exc = "none"

Next ==
    \/ HttpGetOk
    \/ HttpGetFail
    \/ FromStringOk
    \/ FromStringFail
    \/ ResolveEntry
    \/ SkipEntry
    \/ AppendEntry
    \/ BuildKml
    \/ WriteOut

Spec == Init /\ [][Next]_vars

-----------------------------------------------------------------------------
(* Vocabulary of the properties *)

\* the entry the loop has just resolved (when pc = "resolved")
Current == entries_xml[idx]

\* the point a step yields, None when it yields none
Yield(outcome) == IF outcome.kind = "return" THEN outcome.val ELSE None

\* the text of the first child of an entry with that tag; <<>> without one
FirstText(entry, tag) ==
    IF \E i \in DOMAIN entry : entry[i].tag = tag
    THEN entry[CHOOSE i \in DOMAIN entry :
                   entry[i].tag = tag /\ \A j \in 1 .. (i - 1) : entry[j].tag # tag].text
    ELSE <<>>

\* s is t without its leading and trailing whitespace
IsTrimOf(s, t) ==
    LET inked == {k \in DOMAIN t : t[k] \notin Whitespace}
    IN  IF inked = {} THEN s = <<>>
        ELSE \E i \in inked : \E j \in inked :
                 /\ \A k \in inked : i <= k /\ k <= j
                 /\ s = SubSeq(t, i, j)

\* the tokens of a text: its maximal runs of non-whitespace characters
Tokens(t) == Split(t)

\* polygon_centroid was called for the entry: the point step yielded nothing
\* and the polygon text is a non-empty list of an even number of numbers
PolygonCalled(entry) ==
    /\ PointStep(entry).kind = "fall"
    /\ FirstText(entry, "georss:polygon") # <<>>
    /\ LET toks == Tokens(FirstText(entry, "georss:polygon"))
       IN  /\ toks # <<>>
           /\ Len(toks) % 2 = 0
           /\ \A i \in DOMAIN toks : float(toks[i]).ok

\* the vertices polygon_centroid was called with, as (lat, lon) pairs
Vertices(entry) == Coords(Tokens(FirstText(entry, "georss:polygon")))

RECURSIVE SumSeq(_)
SumSeq(s) == IF s = <<>> THEN Zero ELSE NumAdd(Head(s), SumSeq(Tail(s)))

Lat(v) == v[1]

Lon(v) == v[2]

Succ(L, i) == IF i = Len(L) THEN 1 ELSE i + 1

\* the shoelace sums with x = lon, y = lat, over consecutive pairs, wrapping:
\* S = sum of the cross products (twice the signed area A),
\* Mx, My = the first moments (Cx, Cy of the formula before the division)
ShoelaceCross(L) ==
    [i \in DOMAIN L |->
        NumSub(NumMul(Lon(L[i]), Lat(L[Succ(L, i)])),
               NumMul(Lon(L[Succ(L, i)]), Lat(L[i])))]

ShoelaceS(L) == SumSeq(ShoelaceCross(L))

ShoelaceMx(L) ==
    SumSeq([i \in DOMAIN L |->
        NumMul(NumAdd(Lon(L[i]), Lon(L[Succ(L, i)])), ShoelaceCross(L)[i])])

ShoelaceMy(L) ==
    SumSeq([i \in DOMAIN L |->
        NumMul(NumAdd(Lat(L[i]), Lat(L[Succ(L, i)])), ShoelaceCross(L)[i])])

\* pt = (Cy / (6A), Cx / (6A)), stated without division: 6A = 3S
IsShoelaceCentroid(pt, L) ==
    LET sixA == NumMul(Int2Num(3), ShoelaceS(L))
    IN  /\ NumMul(Lat(pt), sixA) = ShoelaceMy(L)
        /\ NumMul(Lon(pt), sixA) = ShoelaceMx(L)

\* pt = the arithmetic mean of the vertices, stated without division
IsVertexMean(pt, L) ==
    /\ NumMul(Lat(pt), Int2Num(Len(L))) = SumSeq([i \in DOMAIN L |-> Lat(L[i])])
    /\ NumMul(Lon(pt), Int2Num(Len(L))) = SumSeq([i \in DOMAIN L |-> Lon(L[i])])

Reverse(L) == [i \in DOMAIN L |-> L[Len(L) + 1 - i]]

\* the rows of the table whose key occurs in the text
MatchingRows(text) ==
    {k \in DOMAIN STATE_CENTROIDS : IsSubstring(STATE_CENTROIDS[k].key, text)}

RowCentroid(k) == <<Micro(STATE_CENTROIDS[k].lat), Micro(STATE_CENTROIDS[k].lon)>>

\* an entry's geometry resolves
Resolves(entry) == Yield(parse_point_from_entry(entry)) # None

\* the entries of the feed that resolve, in feed order
Kept == SelectSeq(entries_xml, Resolves)

InGlobe(lat, lon) ==
    /\ NumLe(Int2Num(-90), lat) /\ NumLe(lat, Int2Num(90))
    /\ NumLe(Int2Num(-180), lon) /\ NumLe(lon, Int2Num(180))

Built == pc \in {"write", "done"}

-----------------------------------------------------------------------------
(* C1 *)

\* the result the claim describes: the point of the first step that yields one
FirstSuccess(entry) ==
    LET y1 == Yield(PointStep(entry))
        y2 == Yield(PolygonStep(entry))
        y3 == Yield(AreaStep(entry))
    IN  IF y1 # None THEN y1 ELSE IF y2 # None THEN y2 ELSE y3

\* C1: the resolver returns the point of the first of the three steps (direct
\* point, polygon centroid, area lookup) that yields one; a step that yields
\* none hands over to the next, so None is returned only when all three
\* yield none.
C1_FirstSuccessWins ==
    pc = "resolved" => point = FirstSuccess(Current)

-----------------------------------------------------------------------------
(* C2 *)

\* C2: the placemarks of the built document are the resolved entries of the
\* feed, one each and in feed order, and the count printed is the number of
\* entries less the number dropped.
C2_PlacemarksAreKeptEntries ==
    /\ Built =>
           LET kept == Kept
           IN  /\ Len(kml_tree.placemarks) = Len(kept)
               /\ \A k \in DOMAIN kept :
                      LET pm == kml_tree.placemarks[k]
                          pt == Yield(parse_point_from_entry(kept[k]))
                      IN  /\ IsTrimOf(pm.ExtendedData[10].value,
                                      FirstText(kept[k], "atom:id"))
                          /\ pm.coordinates = <<Lon(pt), Lat(pt), Zero>>
    /\ pc = "done" =>
           /\ out_file.doc = kml_tree
           /\ stderr = << Len(entries_xml)
                          - Cardinality({i \in DOMAIN entries_xml :
                                            ~Resolves(entries_xml[i])}) >>
           /\ stderr[1] = Len(out_file.doc.placemarks)

C2_Witness ==
    /\ pc = "done"
    /\ Len(entries_xml) = 3
    /\ Len(out_file.doc.placemarks) = 2
    /\ ~Resolves(entries_xml[2])
    /\ out_file.doc.placemarks[1].ExtendedData[10].value
           # out_file.doc.placemarks[2].ExtendedData[10].value

-----------------------------------------------------------------------------
(* C3 *)

IsNamedLevel(sev) == \E i \in DOMAIN SEVERITY_ICON : SEVERITY_ICON[i].sev = sev

\* C3: every placemark's styleUrl names a style defined in the document: the
\* one of the lower-cased severity for the four named levels, sev_unknown for
\* an absent severity and for any other string.
C3_StyleIsDefined ==
    Built =>
        \A k \in DOMAIN kml_tree.placemarks :
            LET url == kml_tree.placemarks[k].styleUrl
                sev == entries[k].severity
            IN  /\ \E j \in DOMAIN kml_tree.styles :
                       url = <<"#">> \o kml_tree.styles[j].id
                /\ url = IF IsNamedLevel(sev)
                         THEN <<"#", "s", "e", "v", "_">> \o Lower(sev)
                         ELSE <<"#", "s", "e", "v", "_", "u", "n", "k", "n", "o", "w", "n">>

-----------------------------------------------------------------------------
(* C4 *)

TenNames ==
    <<"ext_event", "ext_severity", "ext_urgency", "ext_certainty",
      "ext_effective", "ext_expires", "ext_areaDesc", "ext_description",
      "ext_instruction", "ext_id">>

\* the feed tags the ten Data entries are taken from, in the same order
TenTags ==
    <<"cap:event", "cap:severity", "cap:urgency", "cap:certainty",
      "cap:effective", "cap:expires", "cap:areaDesc", "cap:description",
      "cap:instruction", "atom:id">>

\* the thirteen fields of a record the claim lists
ThirteenFields(r) ==
    <<r.id, r.title, r.summary, r.headline, r.event, r.effective, r.expires,
      r.urgency, r.severity, r.certainty, r.areaDesc, r.description,
      r.instruction>>

DataValues(pm) == {pm.ExtendedData[j].value : j \in DOMAIN pm.ExtendedData}

\* C4 as stated: every non-empty field among the thirteen of a retained
\* record is the value of some Data element of its placemark, and the block
\* has exactly the ten named entries.
C4_AllFieldsInExtendedData ==
    Built =>
        \A k \in DOMAIN kml_tree.placemarks :
            LET pm == kml_tree.placemarks[k]
            IN  /\ [j \in DOMAIN pm.ExtendedData |-> pm.ExtendedData[j].name] = TenNames
                /\ \A f \in DOMAIN ThirteenFields(entries[k]) :
                       ThirteenFields(entries[k])[f] # <<>> =>
                           ThirteenFields(entries[k])[f] \in DataValues(pm)

\* C4 amended: the block has exactly the ten named entries, in order, and the
\* value of each is the trimmed text of the feed element it is taken from,
\* the empty string when that element is absent or empty; title, summary and
\* headline are not among them.
C4_TenFieldsVerbatim ==
    Built =>
        LET kept == Kept
        IN  /\ Len(kml_tree.placemarks) = Len(kept)
            /\ \A k \in DOMAIN kml_tree.placemarks :
                   LET data == kml_tree.placemarks[k].ExtendedData
                   IN  /\ [j \in DOMAIN data |-> data[j].name] = TenNames
                       /\ \A j \in DOMAIN data :
                              IsTrimOf(data[j].value, FirstText(kept[k], TenTags[j]))

C4_Witness ==
    /\ Built
    /\ \E k \in DOMAIN kml_tree.placemarks :
           LET data == kml_tree.placemarks[k].ExtendedData
           IN  /\ \E j \in DOMAIN data : data[j].value = <<>>
               /\ \E j \in DOMAIN data :
                      /\ data[j].value # <<>>
                      /\ data[j].value # FirstText(Kept[k], TenTags[j])

-----------------------------------------------------------------------------
(* C5 *)

FetchErrors == {"URLError", "timeout", "HTTPError"}

\* C5: the output file is written only after the fetch and the parse of the
\* feed both succeeded; a failed fetch or parse aborts the run with that error
\* and the file untouched; a run whose feed was fetched and parsed is never
\* aborted, whatever its entries, and has written the file when it ends.
C5_WriteOnlyAfterFetchAndParse ==
    /\ out_file # Untouched =>
           /\ net.status = "200" /\ net.body.wellformed
           /\ pc = "done" /\ exc = "none"
    /\ net.status \in FetchErrors =>
           /\ out_file = Untouched
           /\ pc \in {"http_get", "aborted"}
           /\ pc = "aborted" => exc = net.status
    /\ (net.status = "200" /\ ~net.body.wellformed) =>
           /\ out_file = Untouched
           /\ pc \in {"http_get", "fromstring", "aborted"}
           /\ pc = "aborted" => exc = "ParseError"
    /\ (net.status = "200" /\ net.body.wellformed) =>
           /\ pc # "aborted" /\ exc = "none"
           /\ pc = "loop" => idx <= Len(entries_xml)
           /\ pc = "resolved" => idx \in DOMAIN entries_xml
    /\ (pc = "aborted") = (exc # "none")
    /\ pc = "done" => out_file.written /\ idx = Len(entries_xml)

C5_Witness ==
    /\ pc = "done"
    /\ out_file.written
    /\ \E i \in DOMAIN entries_xml : ~Resolves(entries_xml[i])

-----------------------------------------------------------------------------
(* C6 *)

\* C6: the point of every retained record, and so every placemark
\* coordinate, has its latitude in [-90, 90] and its longitude in [-180, 180].
C6_PointsInGlobe ==
    /\ \A i \in DOMAIN entries :
           InGlobe(Lat(entries[i].point), Lon(entries[i].point))
    /\ \A k \in DOMAIN kml_tree.placemarks :
           InGlobe(kml_tree.placemarks[k].coordinates[2],
                   kml_tree.placemarks[k].coordinates[1])

-----------------------------------------------------------------------------
(* C7 *)

Half == Norm(5, -1, 1)

\* |A| < 1e-9 for the signed area A = S / 2, the test the claim states
AreaBelowEps(L) == NumLt(NumAbs(NumMul(Half, ShoelaceS(L))), EPS)

\* |S| < 1e-9 for the summed cross products S = 2A
CrossSumBelowEps(L) == NumLt(NumAbs(ShoelaceS(L)), EPS)

AllSame(L) == \A i \in DOMAIN L : L[i] = L[1]

\* C7 as stated: the result is the mean of the vertices exactly when
\* |A| < 1e-9, A being half the summed cross products, and the signed-area
\* centroid otherwise; identical vertices give that vertex.
C7_MeanWhenAreaBelowEps ==
    (pc = "resolved" /\ PolygonCalled(Current)) =>
        LET L == Vertices(Current)
        IN  /\ AreaBelowEps(L) => IsVertexMean(point, L)
            /\ ~AreaBelowEps(L) => IsShoelaceCentroid(point, L)
            /\ AllSame(L) => point = L[1]

\* C7, what the code computes instead: the result is the mean of the vertices
\* exactly when the summed cross products S = 2A satisfy |S| < 1e-9 (that is
\* |A| < 5e-10), and the signed-area centroid otherwise.
C7_MeanWhenCrossSumBelowEps ==
    (pc = "resolved" /\ PolygonCalled(Current)) =>
        LET L == Vertices(Current)
        IN  /\ CrossSumBelowEps(L) => IsVertexMean(point, L)
            /\ ~CrossSumBelowEps(L) => IsShoelaceCentroid(point, L)
            /\ AllSame(L) => point = L[1]

\* a polygon between the two thresholds whose mean is not its centroid
C7_Witness ==
    /\ pc = "resolved"
    /\ PolygonCalled(Current)
    /\ AreaBelowEps(Vertices(Current))
    /\ ~CrossSumBelowEps(Vertices(Current))
    /\ IsShoelaceCentroid(point, Vertices(Current))
    /\ ~IsVertexMean(point, Vertices(Current))

-----------------------------------------------------------------------------
(* C8 *)

One == Int2Num(1)

Two == Int2Num(2)

Square == << <<Zero, Zero>>, <<Zero, Two>>, <<Two, Two>>, <<Two, Zero>> >>

\* C8: for a polygon that is not degenerate the result is
\* (lat, lon) = (Cy / (6A), Cx / (6A)) of the shoelace formula with x = lon,
\* y = lat, the same for either winding; the square (0,0),(0,2),(2,2),(2,0)
\* gives (1,1).
C8_ShoelaceCentroid ==
    (pc = "resolved" /\ PolygonCalled(Current)
         /\ ~CrossSumBelowEps(Vertices(Current))) =>
        LET L == Vertices(Current)
        IN  /\ IsShoelaceCentroid(point, L)
            /\ polygon_centroid(Reverse(L)) = point
            /\ L = Square => point = <<One, One>>

C8_Witness ==
    /\ pc = "resolved"
    /\ PolygonCalled(Current)
    /\ Vertices(Current) = Square
    /\ point = <<One, One>>

-----------------------------------------------------------------------------
(* C9 *)

\* the area lookup was reached with a non-empty area description
AreaReached(entry) ==
    /\ PointStep(entry).kind = "fall"
    /\ PolygonStep(entry).kind = "fall"
    /\ \E c \in DOMAIN FirstText(entry, "cap:areaDesc") :
           FirstText(entry, "cap:areaDesc")[c] \notin Whitespace

\* C9: the area lookup returns the centroid of the first row of the table, in
\* table order, whose key occurs in the area description (case-sensitive,
\* anywhere in the text), and fails only if no key occurs.
C9_FirstRowInTableOrder ==
    (pc = "resolved" /\ AreaReached(Current)) =>
        LET rows == MatchingRows(FirstText(Current, "cap:areaDesc"))
        IN  IF rows = {} THEN point = None
            ELSE \E k \in rows :
                     /\ \A j \in rows : k <= j
                     /\ point = RowCentroid(k)

\* two keys occur, the one later in the text being earlier in the table
C9_Witness ==
    /\ pc = "resolved"
    /\ AreaReached(Current)
    /\ Cardinality(MatchingRows(FirstText(Current, "cap:areaDesc"))) > 1
    /\ FirstText(Current, "cap:areaDesc")[1] = "W"
    /\ point = RowCentroid(1)

-----------------------------------------------------------------------------
(* C10 *)

IsPair(pt) == Len(pt) = 2 /\ \A c \in 1 .. 2 : pt[c].d > 0

RecordTags ==
    [id |-> "atom:id", title |-> "atom:title", updated |-> "atom:updated",
     summary |-> "atom:summary", event |-> "cap:event",
     effective |-> "cap:effective", expires |-> "cap:expires",
     urgency |-> "cap:urgency", severity |-> "cap:severity",
     certainty |-> "cap:certainty", areaDesc |-> "cap:areaDesc",
     headline |-> "cap:headline", description |-> "cap:description",
     instruction |-> "cap:instruction"]

\* C10: no resolution step raises to the caller: for every entry the resolver
\* returns a (lat, lon) pair or None, every field of a record is the trimmed
\* text of its element or the empty string, and the run is never aborted by
\* an entry.
C10_NoEntryRaises ==
    /\ exc \notin {"ValueError", "IndexError"}
    /\ pc = "aborted" => idx = 0 /\ entries_xml = <<>>
    /\ pc = "resolved" => point = None \/ IsPair(point)
    /\ LET kept == Kept
       IN  \A i \in DOMAIN entries :
               \A f \in DOMAIN RecordTags :
                   IsTrimOf(entries[i][f], FirstText(kept[i], RecordTags[f]))

\* an entry whose point and polygon both fail to parse has been resolved
C10_Witness ==
    /\ pc = "resolved"
    /\ FirstText(Current, "georss:point") = <<"1", " ", "x">>
    /\ FirstText(Current, "georss:polygon") = <<"1", " ", "2", " ", "3">>
    /\ point # None

====
